---------------------------- MODULE Spec2Model ----------------------------
(***************************************************************************)
(* Real-time event delivery of websitestats-fastapi:                       *)
(*   - ConnectionManager (src/websocket_manager.py): the registry          *)
(*     user id -> set of WebSocket, with connect / disconnect /            *)
(*     disconnect_socket / send_personal_message / broadcast;              *)
(*   - the two notification writers that insert a row into the             *)
(*     notifications table and push it: create_full_installation           *)
(*     (src/installations.py) and run_sales_notifications (src/sales.py).  *)
(*                                                                         *)
(* The server is one asyncio event loop.  A coroutine runs without         *)
(* interruption until it awaits transport I/O, so every action below is    *)
(* the code between two such awaits.  The model places a scheduling point  *)
(* at every await of the source (a superset of the points where asyncio    *)
(* really switches tasks).  The MySQL driver is blocking, so a statement   *)
(* and the code around it up to the next await form one step.              *)
(***************************************************************************)
EXTENDS Integers, Sequences, FiniteSets, TLC

\* ------------------------------------------------------------------ bounds
NumUsers == 2
NumSockets == 3
\* the number of operations started plus result-set rows handled in one run
MaxOps == 2
\* the number of rows the notifications table holds when the inbox requests start
MaxRows == 2

Users == 1..NumUsers
Sockets == 1..NumSockets
\* Two coroutines can be in progress at the same time; a slot is taken again
\* once the operation in it has returned.
Tasks == {1, 2}

\* The user a WebSocket authenticates as: websocket_endpoint resolves the token of
\* a socket to one user id and registers the socket under it, once.
Owner(ws) == (((ws - 1) \div 2) % NumUsers) + 1

VARIABLES
    connections,   \* ConnectionManager._connections : user id -> set of sockets
    appState,      \* WebSocket.application_state of every socket
    up,            \* FALSE once a send or accept on the socket's transport has failed
    got,           \* per socket, the push messages its client received, in order
    tasks,         \* the coroutines (one per operation), their position and locals
    nops,          \* how many operations have been started
    store,         \* committed rows of the notifications table
    lastrowid,     \* AUTO_INCREMENT counter of the notifications table
    endpoint,      \* per socket, how far its websocket_endpoint coroutine has come
    lock           \* ConnectionManager._lock: TRUE while the asyncio.Lock is locked

vars == <<connections, appState, up, got, tasks, nops, store, lastrowid, endpoint, lock>>

\* ------------------------------------------------------------ small helpers
RECURSIVE SetToSeqs(_)
\* every ordering of a finite set (a Python list built from a set or a result set)
SetToSeqs(S) ==
    IF S = {} THEN {<<>>}
    ELSE UNION {{<<x>> \o q : q \in SetToSeqs(S \ {x})} : x \in S}

RECURSIVE Occurrences(_, _)
\* how many times m occurs in the sequence q
Occurrences(q, m) ==
    IF q = <<>> THEN 0
    ELSE (IF Head(q) = m THEN 1 ELSE 0) + Occurrences(Tail(q), m)

RECURSIVE SumOver(_, _)
\* the sum of f[x] over the finite set S
SumOver(f, S) ==
    IF S = {} THEN 0
    ELSE LET x == CHOOSE y \in S : TRUE IN f[x] + SumOver(f, S \ {x})

\* The first element of list(set_of_sockets).  The two sockets of a user are
\* interchangeable, so the order in which Python lists a set is taken to be the
\* order of the labels; every call lists the same set in the same order.
First(S) == CHOOSE x \in S : \A y \in S : x <= y

\* all sockets of a registry mapping
AllSockets(conns) == UNION {conns[u] : u \in DOMAIN conns}

\* ------------------------------------------------------------ task records
NoTask ==
    [op |-> "none", pc |-> "idle", status |-> "", uid |-> 0, ws |-> 0,
     snapshot |-> <<>>, users |-> <<>>, sockets |-> {}, todo |-> {}, dead |-> {}, toclose |-> {},
     pruned |-> {},
     phase |-> "", skipped |-> 0, k |-> 0, tx |-> <<>>,
     pushed |-> {}, company |-> FALSE, err |-> "", updated |-> 0,
     rows |-> <<>>, count |-> 0, section |-> ""]

\* a finished coroutine: returned normally ("ok") or raised ("error")
Finish(task, st) == [task EXCEPT !.pc = "done", !.status = st]

Running(task) == task.op # "none" /\ task.pc # "done"

\* A new operation starts in the first slot whose coroutine is not running, as
\* long as the budget of operations lasts.
CanStart(t) ==
    /\ nops < MaxOps
    /\ ~Running(tasks[t])
    /\ \A t2 \in Tasks : t2 < t => Running(tasks[t2])

\* no coroutine is in progress
Quiet == \A t \in Tasks : ~Running(tasks[t])

\* The locals of a coroutine that has returned are dropped when the next
\* operation starts; until then they show what the call did.
Forget(task) ==
    IF task.pc = "done" THEN NoTask ELSE task

\* the tasks after operation t starts as `task`
Start(t, task) == [t2 \in Tasks |-> IF t2 = t THEN task ELSE Forget(tasks[t2])]

\* ... and with them the record of what their pushes delivered
Remembered(g) ==
    [s \in DOMAIN g |-> SelectSeq(g[s], LAMBDA m : Running(tasks[m[1]]))]

\* ... and the note of which call wrote which row
Archived(rows) ==
    [i \in DOMAIN rows |->
        IF rows[i].t \in Tasks /\ Running(tasks[rows[i].t])
        THEN rows[i]
        ELSE [rows[i] EXCEPT !.t = 0, !.k = 0]]

\* the push message of operation t for its k-th target (k = 0: a direct call)
Msg(t, k) == <<t, k>>

\* ---------------------------------------------------- starlette WebSocket
\* ConnectionManager._is_open
IsOpen(st, ws) == st[ws] = "CONNECTED"

\* A socket the client can still be reached on.
Healthy(ws) == IsOpen(appState, ws) /\ up[ws]

\* application_state after ConnectionManager._safe_close(ws): close() is called only
\* on a CONNECTED socket and leaves it DISCONNECTED whether or not the transport
\* raises; the exception is swallowed.
SafeClose(st, ws) ==
    IF st[ws] = "CONNECTED" THEN [st EXCEPT ![ws] = "DISCONNECTED"] ELSE st

\* ------------------------------------------------------- registry mapping
\* variant: the new socket takes the place of the user's set
AddReplacing(conns, uid, ws) ==
    [u \in DOMAIN conns \cup {uid} |-> IF u = uid THEN {ws} ELSE conns[u]]

\* self._connections.setdefault(user_id, set()).add(websocket)
Add(conns, uid, ws) ==
    [u \in DOMAIN conns \cup {uid} |->
        IF u = uid
        THEN (IF uid \in DOMAIN conns THEN conns[uid] ELSE {}) \cup {ws}
        ELSE conns[u]]

PopEverything(conns, uid) == [u \in {} |-> {}]

\* self._connections.pop(user_id, ...): the mapping without the key
Pop(conns, uid) == [u \in DOMAIN conns \ {uid} |-> conns[u]]

\* self._connections.get(user_id, []) as a collection of sockets
Get(conns, uid) == IF uid \in DOMAIN conns THEN conns[uid] ELSE {}

RemoveSocketAndSiblings(conns, uid, ws) ==
    IF uid \in DOMAIN conns /\ conns[uid] # {} /\ ws \in conns[uid]
    THEN Pop(conns, uid)
    ELSE conns

\* body of the lock section of disconnect_socket
RemoveSocket(conns, uid, ws) ==
    IF uid \in DOMAIN conns /\ conns[uid] # {} /\ ws \in conns[uid]
    THEN IF conns[uid] \ {ws} = {}
         THEN Pop(conns, uid)
         ELSE [conns EXCEPT ![uid] = @ \ {ws}]
    ELSE conns

PruneDeadNothing(conns, uid, dead) == conns

PruneDeadKeepEmpty(conns, uid, dead) ==
    IF uid \in DOMAIN conns /\ conns[uid] # {}
    THEN [conns EXCEPT ![uid] = @ \ dead]
    ELSE conns

\* pruning section of send_personal_message
PruneDead(conns, uid, dead) ==
    IF uid \in DOMAIN conns /\ conns[uid] # {}
    THEN IF conns[uid] \ dead = {}
         THEN Pop(conns, uid)
         ELSE [conns EXCEPT ![uid] = @ \ dead]
    ELSE conns

\* variant: a user with a dead socket loses the whole entry
BroadcastPruneDeadPopUser(conns, uid, dead) ==
    IF uid \in DOMAIN conns /\ conns[uid] # {}
    THEN Pop(conns, uid)
    ELSE conns

\* pruning section of broadcast
BroadcastPruneDead(conns, uid, dead) ==
    IF uid \in DOMAIN conns /\ conns[uid] # {}
    THEN IF conns[uid] \ dead = {}
         THEN Pop(conns, uid)
         ELSE [conns EXCEPT ![uid] = @ \ dead]
    ELSE conns

\* user_connection_count / total_connection_count
UserConnectionCount(conns, uid) == Cardinality(Get(conns, uid))
TotalConnectionCount(conns) ==
    SumOver([u \in DOMAIN conns |-> Cardinality(conns[u])], DOMAIN conns)


\* ------------------------------------------------------------------- Init
\* Some sockets are already registered (accepted, hence CONNECTED) under their
\* owner, the others have not connected yet.  No operation is in progress, the
\* table is empty.  No transport is known to have failed: a peer that went
\* away shows when the server next sends to it (see SendLoop).
RegistryOf(R) ==
    [u \in {Owner(s) : s \in R} |-> {s \in R : Owner(s) = u}]

Init ==
    /\ \E R \in SUBSET Sockets :
          /\ connections = RegistryOf(R)
          /\ appState = [s \in Sockets |-> IF s \in R THEN "CONNECTED" ELSE "CONNECTING"]
          /\ up = [s \in Sockets |-> TRUE]
    /\ got = [s \in Sockets |-> <<>>]
    /\ tasks = [t \in Tasks |-> NoTask]
    /\ nops = 0
    /\ store = <<>>
    /\ lastrowid = 0
    /\ endpoint = [s \in Sockets |-> "open"]
    /\ lock = FALSE

\* ------------------------------------------------------------------ connect
\* connect, first part: await websocket.accept().  A fresh socket becomes
\* CONNECTED; when the peer is already gone accept raises and connect ends
\* without registering anything.
ConnectAccept(t, ws) ==
    /\ CanStart(t)
    /\ endpoint[ws] = "open"
    /\ appState[ws] = "CONNECTING"
    /\ \A t2 \in Tasks : ~(tasks[t2].op = "connect" /\ tasks[t2].ws = ws)
    /\ LET task == [NoTask EXCEPT !.op = "connect", !.uid = Owner(ws), !.ws = ws] IN
         \/ /\ appState' = [appState EXCEPT ![ws] = "CONNECTED"]
            /\ up' = up
            /\ tasks' = Start(t, [task EXCEPT !.pc = "add"])
         \/ /\ appState' = [appState EXCEPT ![ws] = "DISCONNECTED"]
            /\ up' = [up EXCEPT ![ws] = FALSE]
            /\ tasks' = Start(t, Finish(task, "error"))
    /\ got' = Remembered(got)
    /\ store' = Archived(store)
    /\ nops' = nops + 1
    /\ UNCHANGED <<connections, lastrowid, endpoint, lock>>

\* connect, second part: the lock section that adds the socket (the log line
\* after it only reads the count).
ConnectAdd(t) ==
    /\ tasks[t].op = "connect" /\ tasks[t].pc = "add"
    /\ connections' = Add(connections, tasks[t].uid, tasks[t].ws)
    /\ tasks' = [tasks EXCEPT ![t] = Finish(@, "ok")]
    /\ UNCHANGED <<appState, up, got, nops, store, lastrowid, endpoint, lock>>

\* -------------------------------------------------------- websocket_endpoint
\* websocket_endpoint: with a token that verifies and names a user it calls
\* manager.connect (ConnectAccept, ConnectAdd) and then reads until the
\* transport closes.  The other ways through the handler follow.

\* connect has not been called for ws, or has returned
NotConnecting(ws) ==
    \A t \in Tasks : ~(tasks[t].op = "connect" /\ tasks[t].ws = ws /\ Running(tasks[t]))

EndpointRefuseRegistered(ws) ==
    /\ nops < MaxOps
    /\ endpoint[ws] = "open" /\ appState[ws] = "CONNECTING" /\ NotConnecting(ws)
    /\ connections' = Add(connections, Owner(ws), ws)
    /\ appState' = [appState EXCEPT ![ws] = "DISCONNECTED"]
    /\ up' = [up EXCEPT ![ws] = FALSE]
    /\ endpoint' = [endpoint EXCEPT ![ws] = "refused"]
    /\ nops' = nops + 1
    /\ UNCHANGED <<got, tasks, store, lastrowid, lock>>

\* The token does not verify: jwt.decode raises JWTError, the handler closes
\* the socket with code 1008 and returns.  close() on a socket that was not
\* accepted leaves application_state DISCONNECTED.
EndpointRefuse(ws) ==
    /\ nops < MaxOps
    /\ endpoint[ws] = "open" /\ appState[ws] = "CONNECTING" /\ NotConnecting(ws)
    /\ appState' = [appState EXCEPT ![ws] = "DISCONNECTED"]
    /\ up' = [up EXCEPT ![ws] = FALSE]
    /\ endpoint' = [endpoint EXCEPT ![ws] = "refused"]
    /\ nops' = nops + 1
    /\ UNCHANGED <<connections, got, tasks, store, lastrowid, lock>>

\* The token verifies but carries no numeric "sub" or "id": int(...) raises
\* TypeError or ValueError, which the handler does not catch.  Nothing was
\* accepted or closed by the handler; the server drops the transport.
EndpointBadPayload(ws) ==
    /\ nops < MaxOps
    /\ endpoint[ws] = "open" /\ appState[ws] = "CONNECTING" /\ NotConnecting(ws)
    /\ up' = [up EXCEPT ![ws] = FALSE]
    /\ endpoint' = [endpoint EXCEPT ![ws] = "failed"]
    /\ nops' = nops + 1
    /\ UNCHANGED <<connections, appState, got, tasks, store, lastrowid, lock>>

EndpointReadLoopEndsAwaited(ws) ==
    /\ nops < MaxOps
    /\ endpoint[ws] = "open" /\ appState[ws] = "CONNECTED" /\ NotConnecting(ws)
    /\ up' = [up EXCEPT ![ws] = FALSE]
    /\ endpoint' = [endpoint EXCEPT ![ws] = "ended"]
    /\ connections' = Pop(connections, Owner(ws))
    /\ nops' = nops + 1
    /\ UNCHANGED <<appState, got, tasks, store, lastrowid, lock>>

\* The read loop of a connected socket ends: receive_text raises because the
\* transport closed or errored.  The handler then evaluates
\* manager.disconnect(user_id) without awaiting it: the call only builds a
\* coroutine object, whose body never runs, and the handler returns.  (For a
\* socket the server has already closed the end of the loop changes nothing
\* either, and is left out.)
EndpointReadLoopEnds(ws) ==
    /\ nops < MaxOps
    /\ endpoint[ws] = "open" /\ appState[ws] = "CONNECTED" /\ NotConnecting(ws)
    /\ up' = [up EXCEPT ![ws] = FALSE]
    /\ endpoint' = [endpoint EXCEPT ![ws] = "ended"]
    /\ nops' = nops + 1
    /\ UNCHANGED <<connections, appState, got, tasks, store, lastrowid, lock>>

\* --------------------------------------------------------------- disconnect
CloseNextNothing(task) == Finish(task, "ok")

\* what remains of a close loop: done when nothing is left to close
CloseNext(task) == IF task.toclose = {} THEN Finish(task, "ok") ELSE task

\* disconnect(user_id), lock section: pop the whole set of the user.
Disconnect(t, uid) ==
    /\ CanStart(t)
    /\ connections' = Pop(connections, uid)
    /\ tasks' = Start(t,
          CloseNext([NoTask EXCEPT !.op = "disconnect", !.pc = "close", !.uid = uid,
                                   !.toclose = Get(connections, uid),
                                   !.pruned = Get(connections, uid)]))
    /\ got' = Remembered(got)
    /\ store' = Archived(store)
    /\ nops' = nops + 1
    /\ UNCHANGED <<appState, up, lastrowid, endpoint, lock>>

\* disconnect(user_id), one iteration of: for ws in list(sockets): _safe_close(ws)
DisconnectClose(t) ==
    /\ tasks[t].op = "disconnect" /\ tasks[t].pc = "close"
    /\ LET ws == First(tasks[t].toclose) IN
          /\ appState' = SafeClose(appState, ws)
          /\ up' = [up EXCEPT ![ws] = FALSE]
          /\ tasks' = [tasks EXCEPT ![t] = CloseNext([@ EXCEPT !.toclose = @ \ {ws}])]
    /\ UNCHANGED <<connections, got, nops, store, lastrowid, endpoint, lock>>

\* disconnect_socket(user_id, websocket), lock section.
DisconnectSocket(t, uid, ws) ==
    /\ CanStart(t)
    /\ uid = Owner(ws)
    /\ connections' = RemoveSocket(connections, uid, ws)
    /\ tasks' = Start(t,
          [NoTask EXCEPT !.op = "disconnect_socket", !.pc = "close", !.uid = uid,
                         !.ws = ws, !.toclose = {ws}])
    /\ got' = Remembered(got)
    /\ store' = Archived(store)
    /\ nops' = nops + 1
    /\ UNCHANGED <<appState, up, lastrowid, endpoint, lock>>

\* disconnect_socket, the _safe_close(websocket) after the lock section.
DisconnectSocketClose(t) ==
    /\ tasks[t].op = "disconnect_socket" /\ tasks[t].pc = "close"
    /\ appState' = SafeClose(appState, tasks[t].ws)
    /\ up' = [up EXCEPT ![tasks[t].ws] = FALSE]
    /\ tasks' = [tasks EXCEPT ![t] = Finish([@ EXCEPT !.toclose = {}], "ok")]
    /\ UNCHANGED <<connections, got, nops, store, lastrowid, endpoint, lock>>


\* ---------------------------------------------------- send_personal_message
\* the coroutines that run the body of send_personal_message: a direct call, or
\* the call made for one recipient by a notification writer
NotifyOps == {"create_full_installation", "run_sales_notifications"}
SendOps == {"send_personal_message"} \cup NotifyOps

\* send_personal_message returns: a direct call is finished, a notification
\* writer goes on with its recipient loop.
SendReturn(task) ==
    IF task.op = "send_personal_message"
    THEN Finish(task, "ok")
    ELSE [task EXCEPT !.pc = "next"]

SendSnapshotStrict(task, conns, uid) ==
    IF Get(conns, uid) = {}
    THEN Finish([task EXCEPT !.uid = uid], "error")
    ELSE [task EXCEPT !.pc = "loop", !.uid = uid, !.sockets = Get(conns, uid),
                      !.todo = Get(conns, uid), !.dead = {}, !.toclose = {}]

\* variant: the snapshot holds the sockets of every user
SendSnapshotEveryone(task, conns, uid) ==
    IF AllSockets(conns) = {}
    THEN SendReturn([task EXCEPT !.uid = uid, !.sockets = {}, !.todo = {},
                                 !.dead = {}, !.toclose = {}])
    ELSE [task EXCEPT !.pc = "loop", !.uid = uid, !.sockets = AllSockets(conns),
                      !.todo = AllSockets(conns), !.dead = {}, !.toclose = {}]

\* the lock section that takes the snapshot, and the early return on an
\* empty one
SendSnapshot(task, conns, uid) ==
    IF Get(conns, uid) = {}
    THEN SendReturn([task EXCEPT !.uid = uid, !.sockets = {}, !.todo = {},
                                 !.dead = {}, !.toclose = {}])
    ELSE [task EXCEPT !.pc = "loop", !.uid = uid, !.sockets = Get(conns, uid),
                      !.todo = Get(conns, uid), !.dead = {}, !.toclose = {}]

SendOneAbort(task, ws, open, sent) ==
    IF open /\ sent
    THEN [task EXCEPT !.todo = @ \ {ws}]
    ELSE [task EXCEPT !.todo = {}, !.dead = @ \cup {ws}]

SendOneRaise(task, ws, open, sent) ==
    IF open /\ ~sent
    THEN Finish(task, "error")
    ELSE [task EXCEPT !.todo = @ \ {ws},
                      !.dead = IF open THEN @ ELSE @ \cup {ws}]

\* one iteration of the send loop on socket ws: a socket that is not open, or
\* whose send_json raised, is appended to dead; the loop goes on either way
SendOne(task, ws, open, sent) ==
    [task EXCEPT !.todo = @ \ {ws},
                 !.dead = IF open /\ sent THEN @ ELSE @ \cup {ws}]

\* after the loop: "if dead:" leads to the pruning section, otherwise return
AfterLoop(task) ==
    IF task.pc # "loop" \/ task.todo # {} THEN task
    ELSE IF task.dead # {} THEN [task EXCEPT !.pc = "prune"]
    ELSE SendReturn(task)

\* after the close loop over dead
AfterClose(task) ==
    IF task.toclose # {} THEN task ELSE SendReturn(task)

SendPersonalMessageSetdefault(t, uid) ==
    /\ CanStart(t)
    /\ tasks' = Start(t,
          SendSnapshot([NoTask EXCEPT !.op = "send_personal_message"],
                       connections, uid))
    /\ connections' = [u \in DOMAIN connections \cup {uid} |-> Get(connections, u)]
    /\ got' = Remembered(got)
    /\ store' = Archived(store)
    /\ nops' = nops + 1
    /\ UNCHANGED <<appState, up, lastrowid, endpoint, lock>>

\* a direct call send_personal_message(message, user_id): snapshot under the lock
SendPersonalMessage(t, uid) ==
    /\ CanStart(t)
    /\ tasks' = Start(t,
          SendSnapshot([NoTask EXCEPT !.op = "send_personal_message"],
                       connections, uid))
    /\ got' = Remembered(got)
    /\ store' = Archived(store)
    /\ nops' = nops + 1
    /\ UNCHANGED <<connections, appState, up, lastrowid, endpoint, lock>>

\* for ws in sockets: one iteration.  A socket that is not open is skipped into
\* dead.  send_json on an open socket delivers the frame, or raises because
\* the peer has gone away (from then on every send on it fails); starlette
\* then leaves application_state CONNECTED or sets it to DISCONNECTED,
\* depending on the exception.
SendLoop(t) ==
    /\ tasks[t].op \in SendOps /\ tasks[t].pc = "loop"
    /\ LET ws == First(tasks[t].todo)
           open == IsOpen(appState, ws)
       IN \E sent \in (IF open /\ up[ws] THEN BOOLEAN ELSE {FALSE}) :
            /\ got' = IF sent
                      THEN [got EXCEPT ![ws] = Append(@, Msg(t, tasks[t].k))]
                      ELSE got
            /\ up' = IF open THEN [up EXCEPT ![ws] = sent] ELSE up
            /\ IF open /\ ~sent
               THEN \E st \in {"CONNECTED", "DISCONNECTED"} :
                        appState' = [appState EXCEPT ![ws] = st]
               ELSE appState' = appState
            /\ tasks' = [tasks EXCEPT ![t] = AfterLoop(SendOne(@, ws, open, sent))]
    /\ UNCHANGED <<connections, nops, store, lastrowid, endpoint, lock>>

\* if dead: the lock section that discards the dead sockets
SendPrune(t) ==
    /\ tasks[t].op \in SendOps /\ tasks[t].pc = "prune"
    /\ connections' = PruneDead(connections, tasks[t].uid, tasks[t].dead)
    /\ tasks' = [tasks EXCEPT ![t] =
          [@ EXCEPT !.pc = "close", !.toclose = tasks[t].dead, !.pruned = tasks[t].dead]]
    /\ UNCHANGED <<appState, up, got, nops, store, lastrowid, endpoint, lock>>

\* for ws in dead: await self._safe_close(ws), one iteration
SendClose(t) ==
    /\ tasks[t].op \in SendOps /\ tasks[t].pc = "close"
    /\ LET ws == First(tasks[t].toclose) IN
          /\ appState' = SafeClose(appState, ws)
          /\ up' = [up EXCEPT ![ws] = FALSE]
          /\ tasks' = [tasks EXCEPT ![t] = AfterClose([@ EXCEPT !.toclose = @ \ {ws}])]
    /\ UNCHANGED <<connections, got, nops, store, lastrowid, endpoint, lock>>

\* ---------------------------------------------------------------- broadcast
RECURSIVE BroadcastNextUser(_)
\* for user_id, sockets in snapshot.items(): enter the next user's send loop;
\* a user with no socket in the snapshot has nothing to send and nothing dead
BroadcastNextUser(task) ==
    IF task.users = <<>> THEN Finish(task, "ok")
    ELSE LET u == Head(task.users) IN
         IF task.snapshot[u] = {}
         THEN BroadcastNextUser([task EXCEPT !.users = Tail(@)])
         ELSE [task EXCEPT !.pc = "loop", !.users = Tail(@), !.uid = u,
                           !.todo = task.snapshot[u], !.dead = {}, !.toclose = {}]

BroadcastOneAbort(task, ws, open, sent) ==
    IF open /\ sent
    THEN [task EXCEPT !.todo = @ \ {ws}]
    ELSE [task EXCEPT !.todo = {}, !.dead = @ \cup {ws}]

\* one iteration of broadcast's inner loop on socket ws
BroadcastOne(task, ws, open, sent) ==
    [task EXCEPT !.todo = @ \ {ws},
                 !.dead = IF open /\ sent THEN @ ELSE @ \cup {ws}]

\* after the inner loop of one user
BroadcastAfterLoop(task) ==
    IF task.pc # "loop" \/ task.todo # {} THEN task
    ELSE IF task.dead # {} THEN [task EXCEPT !.pc = "prune"]
    ELSE BroadcastNextUser(task)

\* broadcast(message): the snapshot of the whole mapping under the lock;
\* the dict is then iterated in its key order
Broadcast(t) ==
    /\ CanStart(t)
    /\ \E order \in SetToSeqs(DOMAIN connections) :
          tasks' = Start(t,
              BroadcastNextUser([NoTask EXCEPT !.op = "broadcast",
                                   !.snapshot = connections,
                                   !.users = order,
                                   !.sockets = AllSockets(connections)]))
    /\ got' = Remembered(got)
    /\ store' = Archived(store)
    /\ nops' = nops + 1
    /\ UNCHANGED <<connections, appState, up, lastrowid, endpoint, lock>>

BroadcastLoop(t) ==
    /\ tasks[t].op = "broadcast" /\ tasks[t].pc = "loop"
    /\ LET ws == First(tasks[t].todo)
           open == IsOpen(appState, ws)
       IN \E sent \in (IF open /\ up[ws] THEN BOOLEAN ELSE {FALSE}) :
            /\ got' = IF sent
                      THEN [got EXCEPT ![ws] = Append(@, Msg(t, 0))]
                      ELSE got
            /\ up' = IF open THEN [up EXCEPT ![ws] = sent] ELSE up
            /\ IF open /\ ~sent
               THEN \E st \in {"CONNECTED", "DISCONNECTED"} :
                        appState' = [appState EXCEPT ![ws] = st]
               ELSE appState' = appState
            /\ tasks' = [tasks EXCEPT ![t] =
                  BroadcastAfterLoop(BroadcastOne(@, ws, open, sent))]
    /\ UNCHANGED <<connections, nops, store, lastrowid, endpoint, lock>>

BroadcastPrune(t) ==
    /\ tasks[t].op = "broadcast" /\ tasks[t].pc = "prune"
    /\ connections' = BroadcastPruneDead(connections, tasks[t].uid, tasks[t].dead)
    /\ tasks' = [tasks EXCEPT ![t] =
          [@ EXCEPT !.pc = "close", !.toclose = tasks[t].dead, !.pruned = @ \cup tasks[t].dead]]
    /\ UNCHANGED <<appState, up, got, nops, store, lastrowid, endpoint, lock>>

BroadcastClose(t) ==
    /\ tasks[t].op = "broadcast" /\ tasks[t].pc = "close"
    /\ LET ws == First(tasks[t].toclose) IN
          /\ appState' = SafeClose(appState, ws)
          /\ up' = [up EXCEPT ![ws] = FALSE]
          /\ tasks' = [tasks EXCEPT ![t] =
                LET task == [@ EXCEPT !.toclose = @ \ {ws}] IN
                IF task.toclose = {} THEN BroadcastNextUser(task) ELSE task]
    /\ UNCHANGED <<connections, got, nops, store, lastrowid, endpoint, lock>>

\* ------------------------------------------------ notifications table
\* A row of the notifications table as the two writers insert it: id from
\* AUTO_INCREMENT, is_read from the column default (unread).  t and k are not
\* columns: they name the coroutine and the recipient the row was written for.
Row(id, uid, type, t, k) ==
    [id |-> id, user_id |-> uid, type |-> type, is_read |-> FALSE, t |-> t, k |-> k]

\* conn.commit(): the rows inserted in the transaction become durable
Commit(rows, tx) == rows \o tx

\* conn.rollback(): the rows inserted in the transaction are gone
Rollback(task) == [task EXCEPT !.tx = <<>>]

\* the handler's "except Exception: conn.rollback(); raise HTTPException(500)"
Fail(task, err) == [Finish(Rollback(task), "error") EXCEPT !.err = err]

RECURSIVE SortDesc(_)
\* ORDER BY timestamp DESC: rows are stamped when inserted, so the newest id first
SortDesc(rows) ==
    IF rows = <<>> THEN <<>>
    ELSE LET i == CHOOSE j \in DOMAIN rows : \A l \in DOMAIN rows : rows[j].id >= rows[l].id
         IN <<rows[i]>> \o SortDesc(SelectSeq(rows, LAMBDA r : r.id # rows[i].id))

\* list_notifications(limit, offset, unread_only) for the caller user_id
ListNotifications(rows, uid, unread_only, limit, offset) ==
    LET mine == SelectSeq(rows, LAMBDA r : r.user_id = uid /\ (unread_only => ~r.is_read))
        sorted == SortDesc(mine)
    IN SubSeq(sorted, offset + 1, IF offset + limit < Len(sorted) THEN offset + limit ELSE Len(sorted))

\* unread_count for the caller user_id
UnreadCount(rows, uid) ==
    Len(SelectSeq(rows, LAMBDA r : r.user_id = uid /\ ~r.is_read))

\* ------------------------------------------------------- inbox requests
\* The handlers of notifications.py are plain functions: each runs its one
\* statement and its commit on a connection of its own, so a request is one
\* step.  The caller is the user of the request's token.
\* A request that arrives while a writer is between two of its steps sees the
\* committed rows only, which are those from before the run: it is taken
\* before the run (Quiet).

\* the categories the writers put into the type column
RowTypes == {"new_installation", "sales_followup_due", "sales_offer_stale"}

\* the ids a request can name: those of the rows, and one that no row has
NotifIds == 1..(MaxRows + 1)

\* tables left behind by earlier installation creations: ids in insertion
\* order, some rows read
Tables ==
    UNION {[1..n -> [user_id : Users, type : {"new_installation"}, is_read : BOOLEAN]] :
              n \in 0..MaxRows}

InitInbox ==
    /\ \E tab \in Tables :
          store = [i \in DOMAIN tab |->
                     [Row(i, tab[i].user_id, tab[i].type, 0, 0)
                         EXCEPT !.is_read = tab[i].is_read]]
    /\ lastrowid = Len(store)
    /\ connections = RegistryOf({})
    /\ appState = [s \in Sockets |-> "CONNECTING"]
    /\ up = [s \in Sockets |-> TRUE]
    /\ got = [s \in Sockets |-> <<>>]
    /\ tasks = [t \in Tasks |-> NoTask]
    /\ nops = 0
    /\ endpoint = [s \in Sockets |-> "open"]
    /\ lock = FALSE

\* UPDATE notifications SET is_read=1 WHERE id=%s AND user_id=%s
MarkSingle(rows, notif_id, uid) ==
    [i \in DOMAIN rows |->
        IF rows[i].id = notif_id /\ rows[i].user_id = uid
        THEN [rows[i] EXCEPT !.is_read = TRUE]
        ELSE rows[i]]

\* variant: the UPDATE also rewrites the category of the rows it marks
MarkAllRetyped(rows, uid) ==
    [i \in DOMAIN rows |->
        IF rows[i].user_id = uid /\ ~rows[i].is_read
        THEN [rows[i] EXCEPT !.is_read = TRUE, !.type = "read"]
        ELSE rows[i]]

\* UPDATE notifications SET is_read=1 WHERE user_id=%s AND is_read=0
MarkAll(rows, uid) ==
    [i \in DOMAIN rows |->
        IF rows[i].user_id = uid /\ ~rows[i].is_read
        THEN [rows[i] EXCEPT !.is_read = TRUE]
        ELSE rows[i]]

\* cur.rowcount after an UPDATE: get_db connects with the driver's default
\* client flags (no FOUND_ROWS), so the server reports the rows the statement
\* changed, not the rows its WHERE clause matched
RowCount(rows, updated) ==
    Cardinality({i \in DOMAIN rows : rows[i] # updated[i]})

\* POST /notifications/{notif_id}/mark-read: the UPDATE is committed, then a
\* rowcount of 0 is answered with HTTPException(404).
MarkSingleRead(t, notif_id, uid) ==
    /\ CanStart(t) /\ Quiet
    /\ notif_id <= lastrowid + 1
    /\ LET updated == MarkSingle(store, notif_id, uid)
           rowcount == RowCount(store, updated)
           task == [NoTask EXCEPT !.op = "mark_single_read", !.uid = uid, !.k = notif_id]
       IN /\ store' = Archived(updated)
          /\ tasks' = Start(t,
                IF rowcount = 0
                THEN Finish([task EXCEPT !.err = "404"], "error")
                ELSE Finish([task EXCEPT !.updated = 1], "ok"))
    /\ got' = Remembered(got)
    /\ nops' = nops + 1
    /\ UNCHANGED <<connections, appState, up, lastrowid, endpoint, lock>>

\* POST /notifications/mark-read: answers {"updated": rowcount}.
MarkAllRead(t, uid) ==
    /\ CanStart(t) /\ Quiet
    /\ LET updated == MarkAll(store, uid)
           task == [NoTask EXCEPT !.op = "mark_all_read", !.uid = uid]
       IN /\ store' = Archived(updated)
          /\ tasks' = Start(t,
                Finish([task EXCEPT !.updated = RowCount(store, updated)], "ok"))
    /\ got' = Remembered(got)
    /\ nops' = nops + 1
    /\ UNCHANGED <<connections, appState, up, lastrowid, endpoint, lock>>

\* the columns of the rows, without the note of which call wrote them
Columns(rows) ==
    [i \in DOMAIN rows |->
        [id |-> rows[i].id, user_id |-> rows[i].user_id,
         type |-> rows[i].type, is_read |-> rows[i].is_read]]

\* the pages the listing requests ask for, as <<limit, offset>>: the whole
\* inbox, and the second newest record alone
Pages == {<<MaxRows + MaxOps, 0>>, <<1, 1>>}

\* GET /notifications: answers the rows of the caller, newest first
ListNotificationsRequest(t, uid, unread_only, limit, offset) ==
    /\ CanStart(t) /\ Quiet
    /\ tasks' = Start(t,
          Finish([NoTask EXCEPT !.op = "list_notifications", !.uid = uid,
                    !.rows = Columns(ListNotifications(store, uid, unread_only,
                                                       limit, offset))], "ok"))
    /\ got' = Remembered(got)
    /\ store' = Archived(store)
    /\ nops' = nops + 1
    /\ UNCHANGED <<connections, appState, up, lastrowid, endpoint, lock>>

\* GET /notifications/unread-count: answers {"count": ...}
UnreadCountRequest(t, uid) ==
    /\ CanStart(t) /\ Quiet
    /\ tasks' = Start(t,
          Finish([NoTask EXCEPT !.op = "unread_count", !.uid = uid,
                                !.count = UnreadCount(store, uid)], "ok"))
    /\ got' = Remembered(got)
    /\ store' = Archived(store)
    /\ nops' = nops + 1
    /\ UNCHANGED <<connections, appState, up, lastrowid, endpoint, lock>>

\* ---------------------------------------------------- notification writers
\* The result sets (the recipients of a new installation, the leads due today,
\* the stale offers) are read row by row as the loops reach them; every row
\* handled counts against MaxOps.  One writer runs at a time.

\* the category written to the row
RowType(task) ==
    IF task.op = "create_full_installation" THEN "new_installation"
    ELSE IF task.phase = "due" THEN "sales_followup_due"
    ELSE "sales_offer_stale"

\* json.dumps(payload, ensure_ascii=False): the JSON text of a value, and the
\* value a reader of that text gets back
JsonDumps(v) == <<"json", v>>
JsonLoads(text) == text[2]

\* The values of the INSERT for a trigger: the type column, the message text
\* and the data column - the JSON text of the payload for a new installation,
\* NULL (the empty tuple here) for the two sales triggers.
RecordValues(trigger) ==
    [type |-> trigger,
     message |-> "message",
     data |-> IF trigger = "new_installation" THEN JsonDumps("payload") ELSE <<>>]

\* the payload a reader of the row finds in its data column
RecordData(values) ==
    IF values.data = <<>> THEN "NULL" ELSE JsonLoads(values.data)

\* The dict handed to send_personal_message for the row of a trigger.
PushMessage(trigger) ==
    IF trigger = "new_installation"
    THEN [event |-> "new_installation", type |-> "new_installation",
          message |-> "message", data |-> "payload", timestamp |-> "now_str"]
    ELSE [event |-> trigger, type |-> "sales",
          message |-> "message", data |-> "lead_id"]

\* the users a row of the current result set can name: the recipients query
\* of create_full_installation yields each user once
NextTargets(task) ==
    IF task.op = "create_full_installation"
    THEN Users \ {task.tx[i].user_id : i \in DOMAIN task.tx}
    ELSE Users

InsertPerConnectionThenPush(task, t, conns, uid, id) ==
    LET k == task.k + 1
        row == Row(id, uid, RowType(task), t, k)
    IN SendSnapshot(
          [task EXCEPT !.k = k,
                       !.tx = IF Cardinality(Get(conns, uid)) = 2
                              THEN @ \o <<row, row>>
                              ELSE Append(@, row),
                       !.pushed = @ \cup {k}],
          conns, uid)

\* One recipient: the INSERT succeeded, and the push to the recipient is made
\* right after it, inside the still open transaction.
InsertThenPush(task, t, conns, uid, id) ==
    LET k == task.k + 1
    IN SendSnapshot(
          [task EXCEPT !.k = k,
                       !.tx = Append(@, Row(id, uid, RowType(task), t, k)),
                       !.pushed = @ \cup {k}],
          conns, uid)

\* create_full_installation up to the recipient loop: the company and its jobs
\* are inserted and committed, then the jobs and the recipients are read.
CreateFullInstallation(t) ==
    /\ CanStart(t) /\ Quiet
    /\ LET task == [NoTask EXCEPT !.op = "create_full_installation"] IN
       \/ tasks' = Start(t, Fail(task, "insert"))
       \/ tasks' = Start(t, Fail([task EXCEPT !.company = TRUE], "query"))
       \/ tasks' = Start(t, [task EXCEPT !.pc = "next", !.company = TRUE])
    /\ got' = Remembered(got)
    /\ store' = Archived(store)
    /\ UNCHANGED <<connections, appState, up, nops, lastrowid, endpoint, lock>>

\* run_sales_notifications up to its first loop: the leads due today are read.
RunSalesNotifications(t) ==
    /\ CanStart(t) /\ Quiet
    /\ LET task == [NoTask EXCEPT !.op = "run_sales_notifications"] IN
       \/ tasks' = Start(t, Fail(task, "query"))
       \/ tasks' = Start(t, [task EXCEPT !.pc = "next", !.phase = "due"])
    /\ got' = Remembered(got)
    /\ store' = Archived(store)
    /\ UNCHANGED <<connections, appState, up, nops, lastrowid, endpoint, lock>>

\* variant: the connection commits every statement by itself (autocommit)
NotifyInsertAutocommit(t, uid) ==
    /\ tasks[t].op \in NotifyOps /\ tasks[t].pc = "next"
    /\ nops < MaxOps
    /\ uid \in NextTargets(tasks[t])
    /\ \/ /\ tasks' = [tasks EXCEPT ![t] =
                         [InsertThenPush(@, t, connections, uid, lastrowid + 1)
                             EXCEPT !.tx = <<>>]]
          /\ store' = Append(store, Row(lastrowid + 1, uid, RowType(tasks[t]), t,
                                        tasks[t].k + 1))
          /\ lastrowid' = lastrowid + 1
       \/ /\ tasks' = [tasks EXCEPT ![t] = Fail([@ EXCEPT !.k = @ + 1], "insert")]
          /\ store' = store
          /\ lastrowid' = lastrowid
    /\ nops' = nops + 1
    /\ UNCHANGED <<connections, appState, up, got, endpoint, lock>>

\* The recipient loop goes on with a row for user uid: the INSERT and the call
\* of send_personal_message for it.  A statement that raises ends the handler
\* through its rollback.
NotifyInsert(t, uid) ==
    /\ tasks[t].op \in NotifyOps /\ tasks[t].pc = "next"
    /\ nops < MaxOps
    /\ uid \in NextTargets(tasks[t])
    /\ \/ /\ tasks' = [tasks EXCEPT ![t] =
                         InsertThenPush(@, t, connections, uid, lastrowid + 1)]
          /\ lastrowid' = lastrowid + 1
       \/ /\ tasks' = [tasks EXCEPT ![t] = Fail([@ EXCEPT !.k = @ + 1], "insert")]
          /\ lastrowid' = lastrowid
    /\ nops' = nops + 1
    /\ UNCHANGED <<connections, appState, up, got, store, endpoint, lock>>

\* variant: the lead without owner is not skipped, its INSERT is refused by
\* the database and the run ends in its rollback
NotifySkipRaises(t) ==
    /\ tasks[t].op = "run_sales_notifications" /\ tasks[t].pc = "next"
    /\ nops < MaxOps
    /\ tasks' = [tasks EXCEPT ![t] = Fail([@ EXCEPT !.skipped = @ + 1], "insert")]
    /\ nops' = nops + 1
    /\ UNCHANGED <<connections, appState, up, got, store, lastrowid, endpoint, lock>>

\* A lead without owner: "if not row['owner_user_id']: continue".
NotifySkip(t) ==
    /\ tasks[t].op = "run_sales_notifications" /\ tasks[t].pc = "next"
    /\ nops < MaxOps
    /\ tasks' = [tasks EXCEPT ![t] = [@ EXCEPT !.skipped = @ + 1]]
    /\ nops' = nops + 1
    /\ UNCHANGED <<connections, appState, up, got, store, lastrowid, endpoint, lock>>

\* run_sales_notifications between its loops: the stale offers are read.
SalesStaleQuery(t) ==
    /\ tasks[t].op = "run_sales_notifications" /\ tasks[t].pc = "next"
    /\ tasks[t].phase = "due"
    /\ \/ tasks' = [tasks EXCEPT ![t] = [@ EXCEPT !.phase = "stale"]]
       \/ tasks' = [tasks EXCEPT ![t] = Fail(@, "query")]
    /\ UNCHANGED <<connections, appState, up, got, nops, store, lastrowid, endpoint, lock>>

\* after the last loop: conn.commit(), and the handler returns its result
NotifyCommit(t) ==
    /\ tasks[t].op \in NotifyOps /\ tasks[t].pc = "next"
    /\ tasks[t].op = "run_sales_notifications" => tasks[t].phase = "stale"
    /\ \/ /\ store' = Commit(store, tasks[t].tx)
          /\ tasks' = [tasks EXCEPT ![t] = Finish(@, "ok")]
       \/ /\ store' = store
          /\ tasks' = [tasks EXCEPT ![t] = Fail(@, "commit")]
    /\ UNCHANGED <<connections, appState, up, got, nops, lastrowid, endpoint, lock>>

\* ------------------------------------------------- the lock, step by step
\* In the actions above a lock section is one step: asyncio runs a coroutine
\* until it suspends, `async with self._lock` does not suspend when the lock
\* is free, and no section awaits anything, so the lock is free again whenever
\* another coroutine runs.  The actions below do not rely on that: reaching an
\* `async with self._lock` and acquiring the lock are steps of their own, and
\* the other coroutines run while one waits for the lock or holds it.  The pc
\* of a coroutine at a lock section names the section; its field `section`
\* names the section it has acquired the lock for ("" when it holds nothing).

\* the `async with self._lock` statements of ConnectionManager
SectionPcs == {"add", "count", "pop", "remove", "snapshot", "prune", "read"}

\* the operations whose first statement is `async with self._lock`
LockFirstOps ==
    {"disconnect", "disconnect_socket", "send_personal_message", "broadcast",
     "user_connection_count", "total_connection_count"}

\* ... and the section that statement opens
FirstSection(op) ==
    CASE op = "disconnect" -> "pop"
      [] op = "disconnect_socket" -> "remove"
      [] op \in {"send_personal_message", "broadcast"} -> "snapshot"
      [] OTHER -> "read"

\* the coroutine holds the lock
Holds(task) == task.section # ""

\* leaving the `async with` block: Lock.release()
Release(task) == [task EXCEPT !.section = ""]

\* A call op(uid, ws) of one of these operations comes to its first statement.
\* Only disconnect_socket takes a socket, broadcast and total_connection_count
\* take no user.
Call(t, op, uid, ws) ==
    /\ CanStart(t)
    /\ op = "disconnect_socket" => uid = Owner(ws)
    /\ tasks' = Start(t,
          [NoTask EXCEPT !.op = op, !.pc = FirstSection(op),
                         !.uid = IF op \in {"broadcast", "total_connection_count"}
                                 THEN 0 ELSE uid,
                         !.ws = IF op = "disconnect_socket" THEN ws ELSE 0])
    /\ got' = Remembered(got)
    /\ store' = Archived(store)
    /\ nops' = nops + 1
    /\ UNCHANGED <<connections, appState, up, lastrowid, endpoint, lock>>

AcquireUnguarded(t) ==
    /\ Running(tasks[t]) /\ tasks[t].pc \in SectionPcs
    /\ ~Holds(tasks[t])
    /\ lock' = TRUE
    /\ tasks' = [tasks EXCEPT ![t] = [@ EXCEPT !.section = tasks[t].pc]]
    /\ UNCHANGED <<connections, appState, up, got, nops, store, lastrowid, endpoint>>

\* `async with self._lock`, entry: Lock.acquire() returns once the lock is
\* not locked, and locks it.  A coroutine that is at a lock section while it
\* still holds the lock from an earlier one waits here for ever.
Acquire(t) ==
    /\ Running(tasks[t]) /\ tasks[t].pc \in SectionPcs
    /\ tasks[t].section # tasks[t].pc
    /\ ~lock
    /\ lock' = TRUE
    /\ tasks' = [tasks EXCEPT ![t] = [@ EXCEPT !.section = tasks[t].pc]]
    /\ UNCHANGED <<connections, appState, up, got, nops, store, lastrowid, endpoint>>

\* coroutine t runs operation op and is inside its section pc
InSection(t, op, pc) ==
    tasks[t].op = op /\ tasks[t].pc = pc /\ tasks[t].section = pc

ConnectAddLockedNested(t) ==
    /\ InSection(t, "connect", "add")
    /\ connections' = Add(connections, tasks[t].uid, tasks[t].ws)
    /\ tasks' = [tasks EXCEPT ![t] = [@ EXCEPT !.pc = "count"]]
    /\ lock' = lock
    /\ UNCHANGED <<appState, up, got, nops, store, lastrowid, endpoint>>

\* connect: the section that adds the socket, and its release; the log line
\* after the block then calls user_connection_count
ConnectAddLocked(t) ==
    /\ InSection(t, "connect", "add")
    /\ connections' = Add(connections, tasks[t].uid, tasks[t].ws)
    /\ tasks' = [tasks EXCEPT ![t] = Release([@ EXCEPT !.pc = "count"])]
    /\ lock' = FALSE
    /\ UNCHANGED <<appState, up, got, nops, store, lastrowid, endpoint>>

\* connect: the section of the user_connection_count call in its log line
ConnectCountLocked(t) ==
    /\ InSection(t, "connect", "count")
    /\ tasks' = [tasks EXCEPT ![t] =
          Finish(Release([@ EXCEPT !.count =
                             UserConnectionCount(connections, tasks[t].uid)]), "ok")]
    /\ lock' = FALSE
    /\ UNCHANGED <<connections, appState, up, got, nops, store, lastrowid, endpoint>>

\* disconnect: the section that pops the set of the user
DisconnectLocked(t) ==
    /\ InSection(t, "disconnect", "pop")
    /\ connections' = Pop(connections, tasks[t].uid)
    /\ tasks' = [tasks EXCEPT ![t] =
          CloseNext(Release([@ EXCEPT !.pc = "close",
                                      !.toclose = Get(connections, tasks[t].uid),
                                      !.pruned = Get(connections, tasks[t].uid)]))]
    /\ lock' = FALSE
    /\ UNCHANGED <<appState, up, got, nops, store, lastrowid, endpoint>>

\* disconnect_socket: the section that removes the socket
DisconnectSocketLocked(t) ==
    /\ InSection(t, "disconnect_socket", "remove")
    /\ connections' = RemoveSocket(connections, tasks[t].uid, tasks[t].ws)
    /\ tasks' = [tasks EXCEPT ![t] =
          Release([@ EXCEPT !.pc = "close", !.toclose = {tasks[t].ws}])]
    /\ lock' = FALSE
    /\ UNCHANGED <<appState, up, got, nops, store, lastrowid, endpoint>>

SendSnapshotLockedKept(t) ==
    /\ InSection(t, "send_personal_message", "snapshot")
    /\ tasks' = [tasks EXCEPT ![t] = SendSnapshot(@, connections, tasks[t].uid)]
    /\ lock' = lock
    /\ UNCHANGED <<connections, appState, up, got, nops, store, lastrowid, endpoint>>

\* send_personal_message: the section that takes the snapshot
SendSnapshotLocked(t) ==
    /\ InSection(t, "send_personal_message", "snapshot")
    /\ tasks' = [tasks EXCEPT ![t] =
          Release(SendSnapshot(@, connections, tasks[t].uid))]
    /\ lock' = FALSE
    /\ UNCHANGED <<connections, appState, up, got, nops, store, lastrowid, endpoint>>

\* send_personal_message: the section that discards the dead sockets
SendPruneLocked(t) ==
    /\ InSection(t, "send_personal_message", "prune")
    /\ connections' = PruneDead(connections, tasks[t].uid, tasks[t].dead)
    /\ tasks' = [tasks EXCEPT ![t] =
          Release([@ EXCEPT !.pc = "close", !.toclose = tasks[t].dead,
                            !.pruned = tasks[t].dead])]
    /\ lock' = FALSE
    /\ UNCHANGED <<appState, up, got, nops, store, lastrowid, endpoint>>

\* broadcast: the section that copies the mapping
BroadcastSnapshotLocked(t) ==
    /\ InSection(t, "broadcast", "snapshot")
    /\ \E order \in SetToSeqs(DOMAIN connections) :
          tasks' = [tasks EXCEPT ![t] =
              BroadcastNextUser(Release([@ EXCEPT !.snapshot = connections,
                                                  !.users = order,
                                                  !.sockets = AllSockets(connections)]))]
    /\ lock' = FALSE
    /\ UNCHANGED <<connections, appState, up, got, nops, store, lastrowid, endpoint>>

\* broadcast: the section that discards the dead sockets of one user
BroadcastPruneLocked(t) ==
    /\ InSection(t, "broadcast", "prune")
    /\ connections' = BroadcastPruneDead(connections, tasks[t].uid, tasks[t].dead)
    /\ tasks' = [tasks EXCEPT ![t] =
          Release([@ EXCEPT !.pc = "close", !.toclose = tasks[t].dead,
                            !.pruned = @ \cup tasks[t].dead])]
    /\ lock' = FALSE
    /\ UNCHANGED <<appState, up, got, nops, store, lastrowid, endpoint>>

\* user_connection_count(user_id), called on its own
UserConnectionCountLocked(t) ==
    /\ InSection(t, "user_connection_count", "read")
    /\ tasks' = [tasks EXCEPT ![t] =
          Finish(Release([@ EXCEPT !.count =
                             UserConnectionCount(connections, tasks[t].uid)]), "ok")]
    /\ lock' = FALSE
    /\ UNCHANGED <<connections, appState, up, got, nops, store, lastrowid, endpoint>>

\* total_connection_count()
TotalConnectionCountLocked(t) ==
    /\ InSection(t, "total_connection_count", "read")
    /\ tasks' = [tasks EXCEPT ![t] =
          Finish(Release([@ EXCEPT !.count = TotalConnectionCount(connections)]), "ok")]
    /\ lock' = FALSE
    /\ UNCHANGED <<connections, appState, up, got, nops, store, lastrowid, endpoint>>

\* ------------------------------------------------------------ specification
RegistryNext ==
    \/ \E t \in Tasks, ws \in Sockets : ConnectAccept(t, ws)
    \/ \E t \in Tasks : ConnectAdd(t)
    \/ \E t \in Tasks, uid \in Users : Disconnect(t, uid)
    \/ \E t \in Tasks : DisconnectClose(t)
    \/ \E t \in Tasks, uid \in Users, ws \in Sockets : DisconnectSocket(t, uid, ws)
    \/ \E t \in Tasks : DisconnectSocketClose(t)
    \/ \E t \in Tasks, uid \in Users : SendPersonalMessage(t, uid)
    \/ \E t \in Tasks : SendLoop(t)
    \/ \E t \in Tasks : SendPrune(t)
    \/ \E t \in Tasks : SendClose(t)
    \/ \E t \in Tasks : Broadcast(t)
    \/ \E t \in Tasks : BroadcastLoop(t)
    \/ \E t \in Tasks : BroadcastPrune(t)
    \/ \E t \in Tasks : BroadcastClose(t)

Next == RegistryNext

\* the connection registry under every interleaving of its operations
Spec == Init /\ [][Next]_vars

NotifyNext ==
    \/ \E t \in Tasks : CreateFullInstallation(t)
    \/ \E t \in Tasks : RunSalesNotifications(t)
    \/ \E t \in Tasks, uid \in Users : NotifyInsert(t, uid)
    \/ \E t \in Tasks : NotifySkip(t)
    \/ \E t \in Tasks : SalesStaleQuery(t)
    \/ \E t \in Tasks : NotifyCommit(t)
    \/ \E t \in Tasks : SendLoop(t)
    \/ \E t \in Tasks : SendPrune(t)
    \/ \E t \in Tasks : SendClose(t)

\* the notification writers, pushing through the registry
SpecNotify == Init /\ [][NotifyNext]_vars


\* the callers of the registry in the repository, with disconnect_socket;
\* broadcast has no caller
EndpointNext ==
    \/ \E t \in Tasks, ws \in Sockets : ConnectAccept(t, ws)
    \/ \E t \in Tasks : ConnectAdd(t)
    \/ \E t \in Tasks, uid \in Users : Disconnect(t, uid)
    \/ \E t \in Tasks : DisconnectClose(t)
    \/ \E t \in Tasks, uid \in Users, ws \in Sockets : DisconnectSocket(t, uid, ws)
    \/ \E t \in Tasks : DisconnectSocketClose(t)
    \/ \E t \in Tasks, uid \in Users : SendPersonalMessage(t, uid)
    \/ \E t \in Tasks : SendLoop(t)
    \/ \E t \in Tasks : SendPrune(t)
    \/ \E t \in Tasks : SendClose(t)
    \/ \E ws \in Sockets : EndpointRefuse(ws)
    \/ \E ws \in Sockets : EndpointBadPayload(ws)
    \/ \E ws \in Sockets : EndpointReadLoopEnds(ws)

\* the registry as the /ws/live endpoint and the other callers drive it
SpecEndpoint == Init /\ [][EndpointNext]_vars

InboxNext ==
    \/ \E t \in Tasks, notif_id \in NotifIds, uid \in Users : MarkSingleRead(t, notif_id, uid)
    \/ \E t \in Tasks, uid \in Users : MarkAllRead(t, uid)
    \/ \E t \in Tasks, uid \in Users, unread_only \in BOOLEAN, page \in Pages :
          ListNotificationsRequest(t, uid, unread_only, page[1], page[2])
    \/ \E t \in Tasks, uid \in Users : UnreadCountRequest(t, uid)
    \/ \E t \in Tasks : CreateFullInstallation(t)
    \/ \E t \in Tasks, uid \in Users : NotifyInsert(t, uid)
    \/ \E t \in Tasks : NotifyCommit(t)

\* the inbox requests and the installation writer on a table that earlier
\* runs have filled, with no client connected
SpecInbox == InitInbox /\ [][InboxNext]_vars

LockNext ==
    \/ \E t \in Tasks, op \in LockFirstOps, uid \in Users, ws \in Sockets : Call(t, op, uid, ws)
    \/ \E t \in Tasks : Acquire(t)
    \/ \E t \in Tasks, ws \in Sockets : ConnectAccept(t, ws)
    \/ \E t \in Tasks : ConnectAddLocked(t)
    \/ \E t \in Tasks : ConnectCountLocked(t)
    \/ \E t \in Tasks : DisconnectLocked(t)
    \/ \E t \in Tasks : DisconnectClose(t)
    \/ \E t \in Tasks : DisconnectSocketLocked(t)
    \/ \E t \in Tasks : DisconnectSocketClose(t)
    \/ \E t \in Tasks : SendSnapshotLocked(t)
    \/ \E t \in Tasks : SendLoop(t)
    \/ \E t \in Tasks : SendPruneLocked(t)
    \/ \E t \in Tasks : SendClose(t)
    \/ \E t \in Tasks : BroadcastSnapshotLocked(t)
    \/ \E t \in Tasks : BroadcastLoop(t)
    \/ \E t \in Tasks : BroadcastPruneLocked(t)
    \/ \E t \in Tasks : BroadcastClose(t)
    \/ \E t \in Tasks : UserConnectionCountLocked(t)
    \/ \E t \in Tasks : TotalConnectionCountLocked(t)

\* The first socket of every user that has one is registered, the user's
\* second socket has not connected yet; the lock is free.
InitLock ==
    /\ connections = RegistryOf({s \in Sockets : s % 2 = 1})
    /\ appState = [s \in Sockets |-> IF s % 2 = 1 THEN "CONNECTED" ELSE "CONNECTING"]
    /\ up = [s \in Sockets |-> TRUE]
    /\ got = [s \in Sockets |-> <<>>]
    /\ tasks = [t \in Tasks |-> NoTask]
    /\ nops = 0
    /\ store = <<>>
    /\ lastrowid = 0
    /\ endpoint = [s \in Sockets |-> "open"]
    /\ lock = FALSE

\* the registry with the acquisition of the lock as a step of its own
SpecLock == InitLock /\ [][LockNext]_vars

\* one socket is registered, the others have not connected yet
InitOneSocket ==
    /\ connections = RegistryOf({1})
    /\ appState = [s \in Sockets |-> IF s = 1 THEN "CONNECTED" ELSE "CONNECTING"]
    /\ up = [s \in Sockets |-> TRUE]
    /\ got = [s \in Sockets |-> <<>>]
    /\ tasks = [t \in Tasks |-> NoTask]
    /\ nops = 0
    /\ store = <<>>
    /\ lastrowid = 0
    /\ endpoint = [s \in Sockets |-> "open"]
    /\ lock = FALSE

\* ... when every coroutine that can run does run: the event loop resumes
\* every ready coroutine, and the transport calls return
SpecLockFair == InitOneSocket /\ [][LockNext]_vars /\ WF_vars(LockNext)

\* the registry with one operation at a time: an operation starts only when
\* no other is in progress
SeqNext == RegistryNext /\ (nops' # nops => Quiet)

SpecSeq == Init /\ [][SeqNext]_vars

\* ------------------------------------------------------------------ claims
NotifyDone(t) == tasks[t].op \in NotifyOps /\ tasks[t].pc = "done"
SendDone(t) == tasks[t].op = "send_personal_message" /\ tasks[t].pc = "done"
BroadcastDone(t) == tasks[t].op = "broadcast" /\ tasks[t].pc = "done"

\* the committed rows written by coroutine t for its k-th recipient
RowsOf(t, k) == SelectSeq(store, LAMBDA r : r.t = t /\ r.k = k)

\* how many frames carrying message m the clients have received
Delivered(m) == SumOver([s \in Sockets |-> Occurrences(got[s], m)], Sockets)

\* C1: within one run of a notification writer, no push to a recipient is
\* attempted before the recipient's row is committed.
C1_DurabilityPrecedesPush ==
    \A t \in Tasks :
        tasks[t].op \in NotifyOps =>
            \A k \in tasks[t].pushed : Len(RowsOf(t, k)) = 1

\* C2: when a run has ended, normally or through an exception, every push it
\* delivered has exactly one committed row.
C2_DeliveredPushHasRecord ==
    \A t \in Tasks :
        NotifyDone(t) =>
            \A k \in tasks[t].pushed :
                Delivered(Msg(t, k)) > 0 => Len(RowsOf(t, k)) = 1

\* C3: a run ends with an exception only when a database statement raised,
\* never because of a push; and when it returns, every recipient - also one
\* with no live connection, or whose every send failed - has its row committed,
\* unread, and in the recipient's unread-only listing.
C3_OfflineRecipientKeepsRecord ==
    \A t \in Tasks :
        NotifyDone(t) =>
            \/ /\ tasks[t].status = "error"
               /\ tasks[t].err \in {"insert", "query", "commit"}
            \/ /\ tasks[t].status = "ok"
               /\ \A k \in tasks[t].pushed :
                     /\ Len(RowsOf(t, k)) = 1
                     /\ ~RowsOf(t, k)[1].is_read
                     /\ \E i \in 1..Len(store) :
                           ListNotifications(store, RowsOf(t, k)[1].user_id,
                                             TRUE, Len(store), 0)[i] = RowsOf(t, k)[1]

\* a run returned although a recipient had no connection, or lost them all
C3_Witness ==
    \E t \in Tasks :
        /\ NotifyDone(t) /\ tasks[t].status = "ok"
        /\ \E k \in tasks[t].pushed :
              /\ Delivered(Msg(t, k)) = 0
              /\ Len(RowsOf(t, k)) = 1

\* C4: when the INSERT for one recipient raises after the INSERT for an earlier
\* recipient succeeded, the earlier recipient's row is persisted, and the
\* failed recipient has neither a row nor a push.
C4_PartialPersistence ==
    \A t \in Tasks :
        (NotifyDone(t) /\ tasks[t].err = "insert") =>
            /\ \A k \in tasks[t].pushed : Len(RowsOf(t, k)) = 1
            /\ tasks[t].k \notin tasks[t].pushed
            /\ Len(RowsOf(t, tasks[t].k)) = 0

\* C5: send_personal_message delivers the message, once, to every connection
\* of its snapshot that is healthy.
C5_SendReachesEveryHealthySocket ==
    \A t \in Tasks :
        SendDone(t) =>
            \A ws \in tasks[t].sockets :
                Healthy(ws) => Occurrences(got[ws], Msg(t, 0)) = 1

\* one send reached both connections of a user
C5_Witness ==
    \E t \in Tasks :
        /\ SendDone(t)
        /\ Cardinality(tasks[t].sockets) = 2
        /\ \A ws \in tasks[t].sockets : Occurrences(got[ws], Msg(t, 0)) = 1

\* C6: a connection whose send failed does not stop the call: the other
\* connections of the snapshot that did not fail have the message, each failed
\* one is out of the registry and closed when the call returns, and the
\* pruning takes no other connection out of the registry.
C6_FailureIsolation ==
    [][\A t \in Tasks :
          /\ (tasks[t].op = "send_personal_message" /\ tasks[t].pc = "prune"
                    /\ tasks'[t].pc # "prune") =>
                \A u \in Users :
                    Get(connections, u) \ tasks[t].dead \subseteq Get(connections', u)
          /\ (tasks'[t].op = "send_personal_message" /\ tasks'[t].pc = "done") =>
                /\ \A ws \in tasks'[t].sockets \ tasks'[t].dead :
                      Occurrences(got'[ws], Msg(t, 0)) = 1
                /\ \A ws \in tasks'[t].dead :
                      /\ ws \notin AllSockets(connections')
                      /\ ~IsOpen(appState', ws)]_vars

\* a send lost one connection of a user and reached the other, which stays
\* registered
C6_Witness ==
    \E t \in Tasks :
        /\ SendDone(t)
        /\ \E a \in tasks[t].dead, b \in tasks[t].sockets \ tasks[t].dead :
              /\ Occurrences(got[b], Msg(t, 0)) = 1
              /\ b \in Get(connections, tasks[t].uid)
              /\ a \notin AllSockets(connections)

\* C7: send_personal_message and broadcast return normally whatever happens
\* on the connections.
C7_NoEscalation ==
    \A t \in Tasks :
        (SendDone(t) \/ BroadcastDone(t)) => tasks[t].status = "ok"

\* a send and a broadcast that met a failed connection have returned
C7_Witness ==
    /\ SendDone(1) /\ tasks[1].pruned # {}
    /\ BroadcastDone(2) /\ tasks[2].pruned # {}

\* C8: send_personal_message for a user with no registered connection returns
\* at once without error, sends nothing and leaves the registry as it is.
C8_SendToAbsentUserIsNoOp ==
    [][\A t \in Tasks :
          (/\ ~Running(tasks[t])
           /\ tasks'[t].op = "send_personal_message"
           /\ nops' = nops + 1
           /\ Get(connections, tasks'[t].uid) = {}) =>
              /\ tasks'[t].pc = "done" /\ tasks'[t].status = "ok"
              /\ connections' = connections
              /\ appState' = appState
              /\ Delivered(Msg(t, 0))' = 0]_vars

\* a send for a user without connection has returned
C8_Witness ==
    \E t \in Tasks :
        /\ SendDone(t) /\ tasks[t].status = "ok"
        /\ tasks[t].uid \in Users /\ tasks[t].sockets = {}
        /\ AllSockets(connections) # {}

\* C9: a broadcast with nothing else in progress delivers one frame to every
\* connection of the registry that has not failed, so N*M - k frames when k of
\* the N*M connections have failed; the k failed ones are pruned and closed
\* and every other connection is still registered under its user.
C9_BroadcastCount ==
    \A t \in Tasks :
        BroadcastDone(t) =>
            LET all == AllSockets(tasks[t].snapshot)
                failed == {ws \in all : ~Healthy(ws)}
            IN /\ Delivered(Msg(t, 0)) = Cardinality(all) - Cardinality(failed)
               /\ \A ws \in all \ failed : Occurrences(got[ws], Msg(t, 0)) = 1
               /\ tasks[t].pruned = failed
               /\ connections = RegistryOf(all \ failed)
               /\ \A ws \in failed : ~IsOpen(appState, ws)

\* a broadcast over two users lost a connection and reached the others
C9_Witness ==
    \E t \in Tasks :
        /\ BroadcastDone(t)
        /\ Cardinality(DOMAIN tasks[t].snapshot) = 2
        /\ Cardinality(AllSockets(tasks[t].snapshot)) = 3
        /\ Cardinality(tasks[t].pruned) = 1
        /\ Delivered(Msg(t, 0)) = 2

\* C10: no user id maps to an empty set of connections.
C10_NoEmptyEntry ==
    \A u \in DOMAIN connections : connections[u] # {}

\* the last connection of a user was pruned, or removed, and the user is gone
C10_Witness ==
    \E t \in Tasks :
        /\ tasks[t].pc = "done"
        /\ tasks[t].op \in {"send_personal_message", "broadcast", "disconnect_socket"}
        /\ tasks[t].uid \in Users
        /\ tasks[t].uid \notin DOMAIN connections
        /\ (tasks[t].pruned # {} \/ tasks[t].op = "disconnect_socket")

\* C11: once the disconnect handling of a connection whose read loop ended
\* has run, the connection is out of the registry and closed.
C11_ReadLoopEndUnregisters ==
    \A ws \in Sockets :
        endpoint[ws] = "ended" =>
            /\ ws \notin AllSockets(connections)
            /\ ~IsOpen(appState, ws)

\* this step starts an operation in slot t
Starts(t) == CanStart(t) /\ nops' = nops + 1 /\ endpoint' = endpoint

\* this step starts disconnect for the user of ws, or disconnect_socket for ws
Unregisters(ws) ==
    \E t \in Tasks :
        /\ Starts(t)
        /\ \/ tasks'[t].op = "disconnect" /\ tasks'[t].uid = Owner(ws)
           \/ tasks'[t].op = "disconnect_socket" /\ tasks'[t].ws = ws

C13_RefusedNeverRegistered ==
    [][\A ws \in Sockets :
          endpoint'[ws] = "refused" =>
              /\ ws \notin AllSockets(connections')
              /\ appState'[ws] = "DISCONNECTED"
              /\ endpoint[ws] = "open" => connections' = connections]_vars

\* a handshake was refused while other sockets are registered
C13_Witness ==
    \E ws \in Sockets :
        /\ endpoint[ws] = "refused"
        /\ appState[ws] = "DISCONNECTED"
        /\ AllSockets(connections) # {}

\* the place of message m in the sequence q that contains it
Pos(q, m) == CHOOSE i \in 1..Len(q) : q[i] = m

\* the messages of send_personal_message calls that socket ws has received
SendsGot(ws) ==
    {got[ws][i] : i \in {j \in 1..Len(got[ws]) :
                            tasks[got[ws][j][1]].op = "send_personal_message"}}

\* C14: of two send_personal_message calls to one user one is the earlier
\* call, and every connection of the user that receives both messages
\* receives the earlier call's first; so any two connections of the user that
\* both received both messages received them in the same order.
C14_CallOrder ==
    \A a, b \in Sockets :
        Owner(a) = Owner(b) =>
            \A m, n \in SendsGot(a) \cap SendsGot(b) :
                (Pos(got[a], m) < Pos(got[a], n)) <=> (Pos(got[b], m) < Pos(got[b], n))

\* this step is the lock section of operation op, run by coroutine t
LockSection(t, op) ==
    IF op = "connect"
    THEN tasks[t].op = "connect" /\ tasks[t].pc = "add" /\ tasks'[t].pc = "done"
    ELSE Starts(t) /\ tasks'[t].op = op

\* this step closes or accepts a socket on behalf of coroutine t
TouchesSockets(t) ==
    /\ tasks'[t] # tasks[t]
    /\ tasks'[t].op \in {"connect", "disconnect", "disconnect_socket"}
    /\ appState' # appState

Request(t, op) ==
    Starts(t) /\ tasks'[t].op = op

\* C16: mark_single_read on a record of the caller that is already read, and
\* mark_all_read for a caller with nothing unread, return without error and
\* leave every record and every unread count as they were.
C16_MarkReadIdempotent ==
    [][\A t \in Tasks :
          /\ (/\ Request(t, "mark_single_read")
              /\ \E i \in DOMAIN store :
                    /\ store[i].id = tasks'[t].k
                    /\ store[i].user_id = tasks'[t].uid
                    /\ store[i].is_read) =>
                /\ tasks'[t].status = "ok"
                /\ Columns(store') = Columns(store)
                /\ \A u \in Users : UnreadCount(store', u) = UnreadCount(store, u)
          /\ (/\ Request(t, "mark_all_read")
              /\ UnreadCount(store, tasks'[t].uid) = 0) =>
                /\ tasks'[t].status = "ok"
                /\ Columns(store') = Columns(store)
                /\ \A u \in Users : UnreadCount(store', u) = UnreadCount(store, u)]_vars

\* a run of a writer that notified one user, who had two connections, none
\* of which failed, has returned
OneNotifyTwoConnections(t) ==
    /\ NotifyDone(t) /\ tasks[t].status = "ok"
    /\ tasks[t].pushed = {1}
    /\ Cardinality(tasks[t].sockets) = 2
    /\ tasks[t].dead = {}

\* C17: one notification to a user with two healthy connections leaves one
\* new row for the user, unread, in the table - not one per connection -, both
\* connections have received the push, and user_connection_count is still 2.
C17_OneRecordPerUser ==
    \A t \in Tasks :
        OneNotifyTwoConnections(t) =>
            /\ Len(SelectSeq(store, LAMBDA r : r.t = t)) = 1
            /\ Len(RowsOf(t, 1)) = 1
            /\ RowsOf(t, 1)[1].user_id = tasks[t].uid
            /\ ~RowsOf(t, 1)[1].is_read
            /\ UnreadCount(store, tasks[t].uid) >= 1
            /\ \A ws \in tasks[t].sockets : Occurrences(got[ws], Msg(t, 1)) = 1
            /\ Delivered(Msg(t, 1)) = 2
            /\ UserConnectionCount(connections, tasks[t].uid) = 2

\* such a run has returned, and both connections hold the push
C17_Witness ==
    \E t \in Tasks :
        /\ OneNotifyTwoConnections(t)
        /\ Len(RowsOf(t, 1)) = 1
        /\ Delivered(Msg(t, 1)) = 2

\* this step is the one in which operation op of coroutine t returns
Returns(t, op) ==
    tasks'[t].op = op /\ tasks'[t].pc = "done" /\ tasks'[t] # tasks[t]

\* C18: disconnect_socket(u, c) takes c, and nothing else, out of the set of
\* u; the entry of u goes when its set becomes empty; the call returns
\* without error, also when c was closed or not registered, and c is not
\* open when it returns.
C18_UnregisterOne ==
    [][\A t \in Tasks :
          /\ LockSection(t, "disconnect_socket") =>
                /\ \A u \in Users :
                      Get(connections', u) =
                         IF u = tasks'[t].uid
                         THEN Get(connections, u) \ {tasks'[t].ws}
                         ELSE Get(connections, u)
                /\ DOMAIN connections' =
                      {u \in DOMAIN connections : Get(connections', u) # {}}
          /\ Returns(t, "disconnect_socket") =>
                /\ tasks'[t].status = "ok"
                /\ ~IsOpen(appState', tasks'[t].ws)]_vars

\* one of the two connections of a user was unregistered and closed, the
\* other one is still registered
C18_Witness ==
    \E t \in Tasks :
        /\ tasks[t].op = "disconnect_socket" /\ tasks[t].pc = "done"
        /\ appState[tasks[t].ws] = "DISCONNECTED"
        /\ tasks[t].ws \notin AllSockets(connections)
        /\ Get(connections, tasks[t].uid) # {}

\* C19: disconnect(u) takes the whole entry of u out of the mapping, so
\* user_connection_count(u) is 0, and leaves the sets of the other users as
\* they were; when it returns every connection it removed is closed.
C19_UnregisterAll ==
    [][\A t \in Tasks :
          /\ LockSection(t, "disconnect") =>
                /\ tasks'[t].uid \notin DOMAIN connections'
                /\ UserConnectionCount(connections', tasks'[t].uid) = 0
                /\ tasks'[t].pruned = Get(connections, tasks'[t].uid)
                /\ \A u \in Users \ {tasks'[t].uid} :
                      /\ Get(connections', u) = Get(connections, u)
                      /\ u \in DOMAIN connections' <=> u \in DOMAIN connections
          /\ Returns(t, "disconnect") =>
                /\ tasks'[t].status = "ok"
                /\ \A ws \in tasks'[t].pruned : ~IsOpen(appState', ws)]_vars

\* both connections of a user were removed and closed by one disconnect
C19_Witness ==
    \E t \in Tasks :
        /\ tasks[t].op = "disconnect" /\ tasks[t].pc = "done"
        /\ Cardinality(tasks[t].pruned) = 2
        /\ \A ws \in tasks[t].pruned : appState[ws] = "DISCONNECTED"
        /\ UserConnectionCount(connections, tasks[t].uid) = 0

\* C20: for every row a writer has inserted, the push made for it has the
\* fields event, type, message, data and timestamp, and its type, message and
\* data are those of the row.
C20_PushMatchesRecord ==
    \A t \in Tasks :
        tasks[t].op \in NotifyOps =>
            \A i \in DOMAIN tasks[t].tx :
                LET values == RecordValues(tasks[t].tx[i].type)
                    push == PushMessage(tasks[t].tx[i].type)
                IN /\ DOMAIN push = {"event", "type", "message", "data", "timestamp"}
                   /\ push.type = values.type
                   /\ push.message = values.message
                   /\ push.data = RecordData(values)

\* C21: when the INSERT of a notification raises in create_full_installation,
\* after the installation was committed, the installation stays committed and
\* the handler still returns its result to the caller.
C21_NotificationFailureIsBestEffort ==
    \A t \in Tasks :
        (/\ tasks[t].op = "create_full_installation" /\ tasks[t].pc = "done"
         /\ tasks[t].company /\ tasks[t].err = "insert") =>
            tasks[t].status = "ok"


\* C22: a committed record is never deleted, and nothing of it but its read
\* flag ever changes: every step keeps every row of the table in its place
\* with the same id, owner and category.
C22_RecordsAreKept ==
    [][\A i \in DOMAIN store :
          /\ i \in DOMAIN store'
          /\ store'[i].id = store[i].id
          /\ store'[i].user_id = store[i].user_id
          /\ store'[i].type = store[i].type]_vars

\* a mark-all request has flipped the read flag of a record
C22_Witness ==
    \E t \in Tasks :
        /\ tasks[t].op = "mark_all_read" /\ tasks[t].pc = "done"
        /\ tasks[t].updated >= 1
        /\ \E i \in DOMAIN store : store[i].user_id = tasks[t].uid /\ store[i].is_read

\* C23: the step of a sales run that meets a lead without owner writes no
\* record and pushes nothing, and the run goes on with its next target: it
\* has not failed, and its records so far are still to be committed.
C23_TargetWithoutUserIsSkipped ==
    [][\A t \in Tasks :
          (tasks[t].op = "run_sales_notifications" /\ tasks'[t].op = tasks[t].op
             /\ tasks'[t].skipped = tasks[t].skipped + 1) =>
              /\ tasks'[t].tx = tasks[t].tx
              /\ tasks'[t].pushed = tasks[t].pushed
              /\ store' = store /\ lastrowid' = lastrowid /\ got' = got
              /\ Running(tasks'[t]) /\ tasks'[t].pc = "next"]_vars

\* a sales run that skipped a lead has returned its result, with the record
\* of another lead committed
C23_Witness ==
    \E t \in Tasks :
        /\ tasks[t].op = "run_sales_notifications" /\ tasks[t].pc = "done"
        /\ tasks[t].status = "ok"
        /\ tasks[t].skipped = 1 /\ tasks[t].k = 1
        /\ Len(RowsOf(t, 1)) = 1

C28_SendTouchesOnlyItsUser ==
    [][\A t \in Tasks :
          (tasks'[t].op = "send_personal_message" /\ tasks'[t] # tasks[t]) =>
              /\ \A u \in Users \ {tasks'[t].uid} :
                    Get(connections', u) = Get(connections, u)
              /\ \A ws \in Sockets :
                    Owner(ws) # tasks'[t].uid =>
                        /\ appState'[ws] = appState[ws]
                        /\ up'[ws] = up[ws]
                        /\ Occurrences(got'[ws], Msg(t, 0)) = 0]_vars

\* a send to a user has pruned and closed a failed socket of that user, and
\* a socket of another user is registered, open and has received nothing
C28_Witness ==
    \E t \in Tasks, ws \in Sockets :
        /\ SendDone(t) /\ tasks[t].pruned # {}
        /\ Owner(ws) # tasks[t].uid
        /\ ws \in Get(connections, Owner(ws)) /\ Healthy(ws)
        /\ got[ws] = <<>>

\* the committed rows written by coroutine t
WrittenBy(t) == SelectSeq(store, LAMBDA r : r.t = t)

\* C30: the records of one run of a notification writer become durable
\* together, at its commit: while the run is in progress none of them is in
\* the table, after a run that raised none of them is, and after a run that
\* returned all of them are - one for each target it wrote to.
C30_RecordsCommitTogether ==
    \A t \in Tasks :
        tasks[t].op \in NotifyOps =>
            IF tasks[t].pc = "done" /\ tasks[t].status = "ok"
            THEN /\ WrittenBy(t) = tasks[t].tx
                 /\ Len(tasks[t].tx) = tasks[t].k
            ELSE /\ WrittenBy(t) = <<>>
                 /\ tasks[t].pc = "done" => tasks[t].tx = <<>>

\* the second INSERT of a run raised: the row of its first target is not in
\* the table
C30_Witness ==
    \E t \in Tasks :
        /\ NotifyDone(t) /\ tasks[t].status = "error"
        /\ tasks[t].err = "insert" /\ tasks[t].k = 2
        /\ 1 \in tasks[t].pushed
        /\ store = <<>>

\* C24: the section of connect(u, c) for a socket c that is not registered
\* adds c to the set of u, however many sockets u has, and user_connection_count(u)
\* and total_connection_count grow by one; the sections of the two counts
\* return the counts and leave the registry as it is; the total count is the
\* sum of the counts of the users.
C24_RegisterAndCounts ==
    [][/\ TotalConnectionCount(connections') =
             SumOver([u \in Users |-> UserConnectionCount(connections', u)], Users)
       /\ \A t \in Tasks :
             /\ (InSection(t, "connect", "add") /\ tasks'[t].pc = "count"
                    /\ tasks[t].ws \notin AllSockets(connections)) =>
                   /\ Get(connections', tasks[t].uid) =
                         Get(connections, tasks[t].uid) \cup {tasks[t].ws}
                   /\ UserConnectionCount(connections', tasks[t].uid) =
                         UserConnectionCount(connections, tasks[t].uid) + 1
                   /\ TotalConnectionCount(connections') =
                         TotalConnectionCount(connections) + 1
             /\ (Holds(tasks[t]) /\ tasks[t].pc \in {"count", "read"}
                    /\ tasks'[t].pc = "done") =>
                   /\ connections' = connections
                   /\ tasks'[t].count =
                         IF tasks[t].op = "total_connection_count"
                         THEN TotalConnectionCount(connections)
                         ELSE UserConnectionCount(connections, tasks[t].uid)]_vars

\* connect has registered the second socket of a user and logged the count 2
C24_Witness ==
    \E t \in Tasks :
        /\ tasks[t].op = "connect" /\ tasks[t].pc = "done" /\ tasks[t].status = "ok"
        /\ tasks[t].count = 2
        /\ Get(connections, tasks[t].uid) = {tasks[t].ws, tasks[t].ws - 1}

\* the coroutines inside a lock section
Holders == {t \in Tasks : Holds(tasks[t])}

\* C26: at most one coroutine is inside a lock section, and the lock is
\* locked exactly then; the registry changes only in a step of that
\* coroutine, inside its section; and no coroutine gets past a section
\* (takes its snapshot, reads a count, pops, removes, prunes) without holding
\* the lock for it.
C26_MappingOnlyUnderLock ==
    [][/\ Cardinality(Holders) <= 1 /\ Cardinality(Holders') <= 1
       /\ lock <=> Holders # {}
       /\ lock' <=> Holders' # {}
       /\ connections' # connections =>
             \E t \in Holders : tasks'[t] # tasks[t] /\ t \notin Holders'
       /\ \A t \in Tasks :
             (Running(tasks[t]) /\ tasks[t].pc \in SectionPcs
                /\ tasks'[t].pc # tasks[t].pc) =>
                 /\ tasks[t].section = tasks[t].pc
                 /\ Holders = {t}]_vars

\* one coroutine is inside a section while the other waits at one
C26_Witness ==
    \E t1, t2 \in Tasks :
        /\ t1 # t2
        /\ Holds(tasks[t1]) /\ lock
        /\ Running(tasks[t2]) /\ tasks[t2].pc \in SectionPcs /\ ~Holds(tasks[t2])

\* the step that runs the body of the section coroutine t is in, and releases
SectionStep(t) ==
    \/ ConnectAddLocked(t) \/ ConnectCountLocked(t)
    \/ DisconnectLocked(t) \/ DisconnectSocketLocked(t)
    \/ SendSnapshotLocked(t) \/ SendPruneLocked(t)
    \/ BroadcastSnapshotLocked(t) \/ BroadcastPruneLocked(t)
    \/ UserConnectionCountLocked(t) \/ TotalConnectionCountLocked(t)

\* C27: a coroutine that holds the lock is inside a lock section, not at an
\* accept, a send or a close; so whatever sends are pending, a coroutine
\* inside a section can finish it and release, and a coroutine waiting at a
\* section can acquire the lock as soon as it is free.
C27_LockNotHeldAcrossTransport ==
    \A t \in Tasks :
        /\ Holds(tasks[t]) =>
              /\ Running(tasks[t])
              /\ tasks[t].pc \in SectionPcs /\ tasks[t].section = tasks[t].pc
              /\ ENABLED SectionStep(t)
        /\ tasks[t].pc \in {"loop", "close", "done", "idle"} => ~Holds(tasks[t])
        /\ (Running(tasks[t]) /\ tasks[t].pc \in SectionPcs /\ ~Holds(tasks[t])) =>
              (lock \/ ENABLED Acquire(t))

\* while a send of one coroutine is pending, the other is inside a section
C27_Witness ==
    \E t1, t2 \in Tasks :
        /\ tasks[t1].op \in {"send_personal_message", "broadcast"}
        /\ tasks[t1].pc = "loop"
        /\ Holds(tasks[t2]) /\ lock

\* C29: no coroutine waits for the lock while it holds it, and every
\* acquisition is followed by a release; so, the transport calls returning,
\* every call returns: from some moment on no coroutine is in progress and
\* the lock is free (whenever it was locked, it was unlocked later).
C29_EveryCallTerminates == <>[](Quiet /\ ~lock)

\* every operation of the budget has returned, a connect among them that
\* went through both of its sections, and the lock is free
C29_Witness ==
    /\ nops = MaxOps /\ Quiet /\ ~lock
    /\ \E t \in Tasks :
          /\ tasks[t].op = "connect" /\ tasks[t].status = "ok"
          /\ tasks[t].count >= 1
=============================================================================
